---- MODULE Spec2Model ----
(***************************************************************************)
(* AtlanAssist: the bulk classification cache pipeline of src/app.py       *)
(* (load_or_classify_all_tickets) and the grounded answer generator of     *)
(* src/modules/rag.py (get_rag_response_stream), as state machines.        *)
(***************************************************************************)
EXTENDS Naturals, Integers, Sequences, FiniteSets, TLC

\* ------------------------------------------------------------------ bounds
\* Longest ticket collection read from data/sample_tickets.json.
MaxTickets == 5

\* Longest completion, in tokens, that llm.stream delivers.
MaxTokens == 3

\* Most entries of the triage tab's query_history in one session.
MaxQueries == 3

\* Most prompts submitted to the chat tab in one session.
MaxPrompts == 3

\* ------------------------------------------------------- bulk pipeline state
VARIABLES
    tickets,     \* the ticket collection handed to load_or_classify_all_tickets
    cacheFile,   \* classified_tickets_cache.json on disk: [exists, content]
    written,     \* history: the records handed to the last json.dump and the
                 \* size of the collection of the run that wrote them
    pc,          \* position inside load_or_classify_all_tickets
    i,           \* enumerate() index of the for loop (0-based)
    results,     \* the local list `results`
    calls,       \* chain.invoke log of the current/most recent run
    events,      \* time.sleep / chain.invoke order of the current/most recent run
    messages,    \* st.info / st.warning / st.error / st.success of that run
    progress,    \* the st.progress bar: [shown, done, total]
    returned     \* value returned by the most recent finished run

bulkVars == <<tickets, cacheFile, written, pc, i, results, calls, events,
              messages, progress, returned>>

\* ---------------------------------------------------- answer generator state
VARIABLES
    index,       \* the chunks held by the loaded FAISS vector store
    gpc,         \* position inside the generator get_rag_response_stream
    args,        \* the generator's arguments: [query, conversation_history]
    docs,        \* the local `docs`
    sources,     \* the local `sources`
    llmCalls,    \* prompts handed to llm.stream during the current call
    stream,      \* what the llm.stream iterator will deliver: [tokens, failAt]
    consumed,    \* number of tokens taken from the llm.stream iterator
    emitted      \* items yielded to the consumer during the current call

ragVars == <<index, gpc, args, docs, sources, llmCalls, stream, consumed, emitted>>

\* ------------------------------------------------- dashboard script state
VARIABLES
    apiKey,        \* os.environ.get("GOOGLE_API_KEY") is set
    indexDir,      \* the directory faiss_index exists
    gdriveSecret,  \* st.secrets has GDRIVE_INDEX_ID
    ticketsFile,   \* data/sample_tickets.json exists
    cached,        \* st.cache_resource / st.cache_data entries of the process
    spos,          \* position of the script run in app.py
    scriptError,   \* the st.error that preceded st.stop(), if any
    ops            \* core operations performed by the current script run

scriptVars == <<apiKey, indexDir, gdriveSecret, ticketsFile, cached, spos,
                scriptError, ops>>

\* ---------------------------------------------------- corpus builder state
VARIABLES
    mainSitemap,    \* pages listed by https://docs.atlan.com/sitemap.xml
    devSitemap,     \* pages listed by https://developer.atlan.com/sitemap.xml
    bpc,            \* position inside build_index.py / build_index()
    docs_from_main, \* the local `docs_from_main`
    docs_from_dev,  \* the local `docs_from_dev`
    chunks,         \* the local `chunks`
    savedIndex,     \* the directory faiss_index as persisted: [exists, chunks]
    buildError      \* the exception that ended the process, if any

buildVars == <<mainSitemap, devSitemap, bpc, docs_from_main, docs_from_dev,
               chunks, savedIndex, buildError>>

\* ------------------------------------------------ interactive surfaces state
VARIABLES
    query_history,  \* st.session_state.query_history (triage tab), newest first
    chatMessages,   \* st.session_state.messages (chat tab)
    cpos,           \* position inside the chat_input handler
    trace,          \* what the most recent handler did
    testResult      \* outcome of test_integration.test_rag

appVars == <<query_history, chatMessages, cpos, trace, testResult>>

\* ------------------------------------------------------ routing comparison
VARIABLES
    routeTags,      \* analysis.topic_tags of one classification result
    routeDecision   \* the branch each surface takes for it

routeVars == <<routeTags, routeDecision>>

\* What the steps of each part leave alone.
outsideBulk == <<ragVars, scriptVars, buildVars, appVars, routeVars>>

outsideRag == <<bulkVars, scriptVars, buildVars, appVars, routeVars>>

outsideScript == <<ragVars, buildVars, appVars, routeVars>>

outsideBuild == <<bulkVars, ragVars, scriptVars, appVars, routeVars>>

outsideApp == <<bulkVars, ragVars, scriptVars, buildVars, routeVars>>

outsideRoute == <<bulkVars, ragVars, scriptVars, buildVars, appVars>>

vars == <<bulkVars, ragVars, scriptVars, buildVars, appVars, routeVars>>

\* --------------------------------------------------------------- the inputs
\* data/sample_tickets.json: a JSON array of objects {id, subject, body}.
TicketIds      == <<"TICKET-1", "TICKET-2", "TICKET-3", "TICKET-4",
                    "TICKET-5", "TICKET-6", "TICKET-7", "TICKET-8">>
TicketSubjects == <<"subject-1", "subject-2", "subject-3", "subject-4",
                    "subject-5", "subject-6", "subject-7", "subject-8">>
TicketBodies   == <<"body-1", "body-2", "body-3", "body-4",
                    "body-5", "body-6", "body-7", "body-8">>

Ticket(n) ==
    [id |-> TicketIds[n], subject |-> TicketSubjects[n], body |-> TicketBodies[n]]

\* The file's possible contents: every contiguous window of a base list of
\* MaxTickets distinct tickets, the empty list included.
TicketCollections ==
    { [j \in 1..n |-> Ticket(s + j - 1)] :
        <<s, n>> \in { w \in (1..MaxTickets) \X (0..MaxTickets) :
                         w[1] + w[2] - 1 <= MaxTickets } }

\* load_tickets(): json.load of data/sample_tickets.json.
load_tickets == TicketCollections

\* The closed vocabularies named in the Field descriptions and the prompt.
TopicVocabulary ==
    {"How-to", "Product", "Connector", "Lineage", "API/SDK", "SSO", "Glossary",
     "Best practices", "Sensitive data", "Bug", "Feature request",
     "Documentation", "Performance", "Integration", "Security", "Onboarding",
     "Troubleshooting"}

Sentiments ==
    {"Frustrated", "Curious", "Angry", "Neutral", "Satisfied", "Confused",
     "Urgent", "Appreciative"}

Priorities == {"P0 (High)", "P1 (Medium)", "P2 (Low)"}

\* TicketClassification: five fields, topic_tags a List[str], the rest str.
\* What chain.invoke may return: structured output fixes the field names and
\* types only, the vocabularies are prompt text.
ClassifierOutputs ==
    { [topic_tags       |-> <<"SSO", "How-to">>,
       sentiment        |-> "Curious",
       priority         |-> "P2 (Low)",
       summary          |-> "summary-a",
       suggested_action |-> "action-a"],
      [topic_tags       |-> <<"Feature request">>,
       sentiment        |-> "Frustrated",
       priority         |-> "P0 (High)",
       summary          |-> "summary-b",
       suggested_action |-> "action-b"],
      [topic_tags       |-> <<"Billing">>,
       sentiment        |-> "Happy",
       priority         |-> "High",
       summary          |-> "summary-c",
       suggested_action |-> "action-c"] }

\* Placeholder logged for a chain.invoke that raised instead of returning.
NoClassification ==
    [topic_tags |-> <<>>, sentiment |-> "", priority |-> "", summary |-> "",
     suggested_action |-> ""]

\* classification.model_dump(): the pydantic object as a plain dict.
model_dump(c) ==
    [topic_tags       |-> c.topic_tags,
     sentiment        |-> c.sentiment,
     priority         |-> c.priority,
     summary          |-> c.summary,
     suggested_action |-> c.suggested_action]

\* Mutant: subject and body joined by a single line break.
ticket_text_SingleBreak(ticket) == <<ticket.subject, "\n", ticket.body>>

\* f"{ticket['subject']}\n\n{ticket['body']}": the text as its segments.
ticket_text(ticket) == <<ticket.subject, "\n\n", ticket.body>>

\* The dict appended to `results` for one classified ticket.
ResultRecord(ticket, classification) ==
    [id             |-> ticket.id,
     subject        |-> ticket.subject,
     body           |-> ticket.body,
     classification |-> model_dump(classification)]

\* ------------------------------------------------- json.dump and json.load
\* The cache file is modelled as the token stream of its JSON text.
DumpClassification(c) ==
    <<"{", "topic_tags", "[">> \o c.topic_tags \o
    <<"]", "sentiment", c.sentiment, "priority", c.priority,
      "summary", c.summary, "suggested_action", c.suggested_action, "}">>

DumpRecord(r) ==
    <<"{", "id", r.id, "subject", r.subject, "body", r.body, "classification">>
    \o DumpClassification(r.classification) \o <<"}">>

RECURSIVE DumpRecords(_)
DumpRecords(rs) ==
    IF rs = <<>> THEN <<>>
    ELSE DumpRecord(Head(rs)) \o DumpRecords(Tail(rs))

\* json.dump(results, f, indent=2)
JsonDump(rs) == <<"[">> \o DumpRecords(rs) \o <<"]">>

\* Position of the "]" that closes the array opened just before position p.
RECURSIVE ArrayEnd(_, _)
ArrayEnd(toks, p) == IF toks[p] = "]" THEN p ELSE ArrayEnd(toks, p + 1)

\* Mutant: sentiment and priority read from each other's position.
ParseRecord_Swapped(toks, p) ==
    LET e == ArrayEnd(toks, p + 11)
    IN  [record |->
            [id             |-> toks[p + 2],
             subject        |-> toks[p + 4],
             body           |-> toks[p + 6],
             classification |->
                [topic_tags       |-> SubSeq(toks, p + 11, e - 1),
                 sentiment        |-> toks[e + 4],
                 priority         |-> toks[e + 2],
                 summary          |-> toks[e + 6],
                 suggested_action |-> toks[e + 8]]],
         next |-> e + 11]

\* The object that starts at position p ("{") and the position after it.
ParseRecord(toks, p) ==
    LET e == ArrayEnd(toks, p + 11)
    IN  [record |->
            [id             |-> toks[p + 2],
             subject        |-> toks[p + 4],
             body           |-> toks[p + 6],
             classification |->
                [topic_tags       |-> SubSeq(toks, p + 11, e - 1),
                 sentiment        |-> toks[e + 2],
                 priority         |-> toks[e + 4],
                 summary          |-> toks[e + 6],
                 suggested_action |-> toks[e + 8]]],
         next |-> e + 11]

RECURSIVE ParseRecords(_, _)
ParseRecords(toks, p) ==
    IF toks[p] = "]" THEN <<>>
    ELSE LET r == ParseRecord(toks, p)
         IN  <<r.record>> \o ParseRecords(toks, r.next)

\* json.load(f)
JsonLoad(toks) == ParseRecords(toks, 2)

\* os.path.exists(CLASSIFICATION_CACHE_FILE) is false.
NoFile == [exists |-> FALSE, content |-> <<>>]

NothingWritten == [records |-> <<>>, total |-> 0]

NoProgress == [shown |-> FALSE, done |-> 0, total |-> 0]

\* time.sleep(4)
SleepSeconds == 4

\* Entries of the sleep/invoke order log.
SleepEvent  == [kind |-> "sleep", seconds |-> SleepSeconds]
InvokeEvent == [kind |-> "invoke", seconds |-> 0]

Msg(level, text) == [level |-> level, text |-> text]

\* One entry of the chain.invoke log.
Call(text, raised, value) == [ticket_text |-> text, raised |-> raised, value |-> value]

\* ------------------------------------------------ load_or_classify_all_tickets
\* Mutant: a cache shorter than the ticket collection is deleted after loading.
LoadFromCache_DropShort ==
    /\ pc = "idle"
    /\ cacheFile.exists
    /\ messages' = <<Msg("info", "cache")>>
    /\ returned' = JsonLoad(cacheFile.content)
    /\ cacheFile' = IF Len(JsonLoad(cacheFile.content)) < Len(tickets)
                    THEN NoFile ELSE cacheFile
    /\ results' = <<>>
    /\ calls' = <<>>
    /\ events' = <<>>
    /\ i' = 0
    /\ UNCHANGED <<tickets, written, pc, progress>>
    /\ UNCHANGED outsideBulk

\* Entry with the cache file present: load it and return.
LoadFromCache ==
    /\ pc = "idle"
    /\ cacheFile.exists
    /\ messages' = <<Msg("info", "cache")>>
    /\ returned' = JsonLoad(cacheFile.content)
    /\ results' = <<>>
    /\ calls' = <<>>
    /\ events' = <<>>
    /\ i' = 0
    /\ UNCHANGED <<tickets, cacheFile, written, pc, progress>>
    /\ UNCHANGED outsideBulk

\* Mutant: a cache shorter than the ticket collection is classified again.
StartBulk_Resume ==
    /\ pc = "idle"
    /\ IF cacheFile.exists
       THEN Len(JsonLoad(cacheFile.content)) < Len(tickets)
       ELSE TRUE
    /\ messages' = <<Msg("warning", "nocache")>>
    /\ results' = <<>>
    /\ calls' = <<>>
    /\ events' = <<>>
    /\ i' = 0
    /\ progress' = [shown |-> TRUE, done |-> 0, total |-> Len(tickets)]
    /\ pc' = "loop"
    /\ UNCHANGED <<tickets, cacheFile, written, returned>>
    /\ UNCHANGED outsideBulk

\* Entry with no cache file: warn, results = [], progress bar at 0.
StartBulk ==
    /\ pc = "idle"
    /\ ~cacheFile.exists
    /\ messages' = <<Msg("warning", "nocache")>>
    /\ results' = <<>>
    /\ calls' = <<>>
    /\ events' = <<>>
    /\ i' = 0
    /\ progress' = [shown |-> TRUE, done |-> 0, total |-> Len(tickets)]
    /\ pc' = "loop"
    /\ UNCHANGED <<tickets, cacheFile, written, returned>>
    /\ UNCHANGED outsideBulk

\* Mutant: the delay is taken before every call, the first included.
LoopHead_SleepFirst ==
    /\ pc = "loop"
    /\ pc' = IF i < Len(tickets)
               THEN (IF i >= 0 THEN "sleep" ELSE "try")
               ELSE "save"
    /\ UNCHANGED <<tickets, cacheFile, written, i, results, calls, events,
                   messages, progress, returned>>
    /\ UNCHANGED outsideBulk

\* for i, ticket in enumerate(tickets_json): next element or loop exit.
LoopHead ==
    /\ pc = "loop"
    /\ pc' = IF i < Len(tickets)
               THEN (IF i > 0 THEN "sleep" ELSE "try")
               ELSE "save"
    /\ UNCHANGED <<tickets, cacheFile, written, i, results, calls, events,
                   messages, progress, returned>>
    /\ UNCHANGED outsideBulk

\* if i > 0: time.sleep(4)
Sleep ==
    /\ pc = "sleep"
    /\ events' = Append(events, SleepEvent)
    /\ pc' = "try"
    /\ UNCHANGED <<tickets, cacheFile, written, i, results, calls, messages,
                   progress, returned>>
    /\ UNCHANGED outsideBulk

\* try body: chain.invoke returns; append the record; update the progress bar.
InvokeOk ==
    /\ pc = "try"
    /\ \E c \in ClassifierOutputs :
         LET ticket == tickets[i + 1]
         IN  /\ calls' = Append(calls, Call(ticket_text(ticket), FALSE, c))
             /\ results' = Append(results, ResultRecord(ticket, c))
    /\ events' = Append(events, InvokeEvent)
    /\ progress' = [shown |-> TRUE, done |-> i + 1, total |-> Len(tickets)]
    /\ i' = i + 1
    /\ pc' = "loop"
    /\ UNCHANGED <<tickets, cacheFile, written, messages, returned>>
    /\ UNCHANGED outsideBulk

\* Mutant: the failed ticket is skipped and the loop goes on (continue).
InvokeRaise_Continue ==
    /\ pc = "try"
    /\ LET ticket == tickets[i + 1]
       IN  /\ calls' = Append(calls, Call(ticket_text(ticket), TRUE, NoClassification))
           /\ messages' = Append(messages, Msg("error", ticket.id))
    /\ events' = Append(events, InvokeEvent)
    /\ i' = i + 1
    /\ pc' = "loop"
    /\ UNCHANGED <<tickets, cacheFile, written, results, progress, returned>>
    /\ UNCHANGED outsideBulk

\* except Exception: st.error(...); break
InvokeRaise ==
    /\ pc = "try"
    /\ LET ticket == tickets[i + 1]
       IN  /\ calls' = Append(calls, Call(ticket_text(ticket), TRUE, NoClassification))
           /\ messages' = Append(messages, Msg("error", ticket.id))
    /\ events' = Append(events, InvokeEvent)
    /\ pc' = "save"
    /\ UNCHANGED <<tickets, cacheFile, written, i, results, progress, returned>>
    /\ UNCHANGED outsideBulk

\* After the loop: json.dump(results), progress_bar.empty(), st.success, return.
Save ==
    /\ pc = "save"
    /\ cacheFile' = [exists |-> TRUE, content |-> JsonDump(results)]
    /\ written' = [records |-> results, total |-> Len(tickets)]
    /\ progress' = NoProgress
    /\ messages' = Append(messages, Msg("success", "all classified and saved"))
    /\ returned' = results
    /\ pc' = "idle"
    /\ UNCHANGED <<tickets, i, results, calls, events>>
    /\ UNCHANGED outsideBulk

\* What a script run leaves behind is gone when the script starts over.
ResetRun ==
    /\ i' = 0
    /\ results' = <<>>
    /\ calls' = <<>>
    /\ events' = <<>>
    /\ messages' = <<>>
    /\ progress' = NoProgress
    /\ returned' = <<>>

\* Sidebar button "Clear Classification Cache" with the file present:
\* os.remove, then st.rerun().
ClearCache ==
    /\ pc = "idle"
    /\ cacheFile.exists
    /\ cacheFile' = NoFile
    /\ written' = NothingWritten
    /\ ResetRun
    /\ UNCHANGED <<tickets, pc>>
    /\ UNCHANGED outsideBulk

\* A new process: st.cache_data is empty, load_tickets() reads the file again.
ReloadTickets ==
    /\ pc = "idle"
    /\ tickets' \in load_tickets
    /\ tickets' # tickets
    /\ ResetRun
    /\ UNCHANGED <<cacheFile, written, pc>>
    /\ UNCHANGED outsideBulk

\* ---------------------------------------------------- get_rag_response_stream
\* similarity_search(query, k=7)
K == 7

\* Source URLs as strings of character codes, so that Python's string order
\* (code point by code point, a proper prefix first) can be computed.
UrlDocsA   == <<1>>
UrlDocsAB  == <<1, 2>>
UrlDevB    == <<2>>

\* Chunks the persisted index may hold; SitemapLoader sets metadata.source.
ChunkPool ==
    { [page_content |-> "chunk-1", metadata |-> [source |-> UrlDevB]],
      [page_content |-> "chunk-2", metadata |-> [source |-> UrlDocsA]],
      [page_content |-> "chunk-3", metadata |-> [source |-> UrlDocsAB]],
      [page_content |-> "chunk-4", metadata |-> [source |-> UrlDevB]] }

Queries == {"What is lineage?", "what else?"}

\* conversation_history values, as strings of characters.
Histories == {<<>>, <<" ", "\n">>, <<"u", "s", "e", "r", ":", " ", "h", "i">>}

\* chunk.content values of the streamed completion.
Tokens == {"Lineage ", ""}

FallbackMessage == "I could not find any relevant documents in the knowledge base to answer your question. Please try rephrasing your query or check the official Atlan documentation."

Min(a, b) == IF a <= b THEN a ELSE b

\* vector_store.similarity_search(query, k): up to k distinct chunks of the
\* index, nearest first (any order: the similarity is the embedding's).
similarity_search(store, k) ==
    { d \in [1..Min(k, Cardinality(store)) -> store] :
        \A a, b \in DOMAIN d : a # b => d[a] # d[b] }

\* dict.get(key, default)
DictGet(d, key, default) == IF key \in DOMAIN d THEN d[key] ELSE default

\* Python's str < str.
RECURSIVE StrLess(_, _)
StrLess(a, b) ==
    IF b = <<>> THEN FALSE
    ELSE IF a = <<>> THEN TRUE
    ELSE IF Head(a) # Head(b) THEN Head(a) < Head(b)
    ELSE StrLess(Tail(a), Tail(b))

\* sorted(list(S)) for a set of strings.
RECURSIVE sorted(_)
sorted(S) ==
    IF S = {} THEN <<>>
    ELSE LET m == CHOOSE x \in S : \A y \in S \ {x} : StrLess(x, y)
         IN  <<m>> \o sorted(S \ {m})

\* Mutant: the sources of the chunks as retrieved, neither deduplicated nor sorted.
SourcesOf_AsRetrieved(ds) ==
    [n \in DOMAIN ds |-> DictGet(ds[n].metadata, "source", <<>>)]

\* sorted(list(set(d.metadata.get("source", "") for d in docs)))
SourcesOf(ds) == sorted({ DictGet(ds[n].metadata, "source", <<>>) : n \in DOMAIN ds })

\* "\n\n".join([d.page_content for d in docs]), as its segments.
RECURSIVE JoinContents(_)
JoinContents(ds) ==
    IF ds = <<>> THEN <<>>
    ELSE IF Len(ds) = 1 THEN <<ds[1].page_content>>
    ELSE <<ds[1].page_content, "\n\n">> \o JoinContents(Tail(ds))

IsSpace(c) == c \in {" ", "\n", "\t"}

\* str.strip()
RECURSIVE LStrip(_)
LStrip(str) ==
    IF str # <<>> /\ IsSpace(Head(str)) THEN LStrip(Tail(str)) ELSE str

RECURSIVE RStrip(_)
RStrip(str) ==
    IF str # <<>> /\ IsSpace(str[Len(str)])
    THEN RStrip(SubSeq(str, 1, Len(str) - 1)) ELSE str

Strip(str) == RStrip(LStrip(str))

\* conversation_section: present only when the history is not blank.
ConversationSection(history) ==
    IF Strip(history) # <<>>
    THEN <<"**Previous Conversation:**">> \o history \o <<"---">>
    ELSE <<>>

\* prompt_template: the fixed instructions around the three variable parts.
PromptTemplate(history, ds, query) ==
    [conversation_section |-> ConversationSection(history),
     context              |-> JoinContents(ds),
     question             |-> query]

NoArgs == [query |-> "", conversation_history |-> <<>>]

NoStream == [tokens |-> <<>>, fails |-> FALSE]

\* What an llm.stream(prompt) iterator may do: deliver up to MaxTokens chunks
\* and then either finish or raise.
Streams ==
    { [tokens |-> t, fails |-> f] :
        t \in UNION { [1..n -> Tokens] : n \in 0..MaxTokens }, f \in BOOLEAN }

\* The consumer calls get_rag_response_stream(vector_store, llm, query, history):
\* a new generator, nothing of its body has run yet.
Answer ==
    /\ gpc \in {"none", "done", "raised"}
    /\ \E q \in Queries, h \in Histories :
         args' = [query |-> q, conversation_history |-> h]
    /\ gpc' = "start"
    /\ docs' = <<>>
    /\ sources' = <<>>
    /\ llmCalls' = <<>>
    /\ stream' = NoStream
    /\ consumed' = 0
    /\ emitted' = <<>>
    /\ UNCHANGED index
    /\ UNCHANGED outsideRag

\* Mutant: the model is asked even though nothing was retrieved.
RetrieveNothing_CallsModel ==
    /\ gpc = "start"
    /\ docs' \in similarity_search(index, K)
    /\ docs' = <<>>
    /\ llmCalls' = Append(llmCalls,
                      PromptTemplate(args.conversation_history, docs', args.query))
    /\ emitted' = Append(emitted, [chunk |-> FallbackMessage])
    /\ gpc' = "fallback"
    /\ UNCHANGED <<index, args, sources, stream, consumed>>
    /\ UNCHANGED outsideRag

\* First pull, retrieval empty: yield the fallback chunk.
RetrieveNothing ==
    /\ gpc = "start"
    /\ docs' \in similarity_search(index, K)
    /\ docs' = <<>>
    /\ emitted' = Append(emitted, [chunk |-> FallbackMessage])
    /\ gpc' = "fallback"
    /\ UNCHANGED <<index, args, sources, llmCalls, stream, consumed>>
    /\ UNCHANGED outsideRag

\* Next pull after the fallback chunk: yield {"sources": []}.
FallbackSources ==
    /\ gpc = "fallback"
    /\ emitted' = Append(emitted, [sources |-> <<>>])
    /\ gpc' = "fallback_sources"
    /\ UNCHANGED <<index, args, docs, sources, llmCalls, stream, consumed>>
    /\ UNCHANGED outsideRag

\* Next pull: return (the generator is exhausted).
FallbackReturn ==
    /\ gpc = "fallback_sources"
    /\ gpc' = "done"
    /\ UNCHANGED <<index, args, docs, sources, llmCalls, stream, consumed, emitted>>
    /\ UNCHANGED outsideRag

\* First pull, retrieval not empty: context, sources, prompt, llm.stream(prompt).
RetrieveAndPrompt ==
    /\ gpc = "start"
    /\ docs' \in similarity_search(index, K)
    /\ docs' # <<>>
    /\ sources' = SourcesOf(docs')
    /\ llmCalls' = Append(llmCalls,
                      PromptTemplate(args.conversation_history, docs', args.query))
    /\ stream' \in Streams
    /\ consumed' = 0
    /\ gpc' = "streaming"
    /\ UNCHANGED <<index, args, emitted>>
    /\ UNCHANGED outsideRag

\* Mutant: the sources are streamed along with every chunk.
StreamChunk_WithSources ==
    /\ gpc = "streaming"
    /\ consumed < Len(stream.tokens)
    /\ emitted' = emitted \o <<[chunk |-> stream.tokens[consumed + 1]],
                               [sources |-> sources]>>
    /\ consumed' = consumed + 1
    /\ UNCHANGED <<index, gpc, args, docs, sources, llmCalls, stream>>
    /\ UNCHANGED outsideRag

\* for chunk in llm.stream(...): yield {"chunk": chunk.content}
StreamChunk ==
    /\ gpc = "streaming"
    /\ consumed < Len(stream.tokens)
    /\ emitted' = Append(emitted, [chunk |-> stream.tokens[consumed + 1]])
    /\ consumed' = consumed + 1
    /\ UNCHANGED <<index, gpc, args, docs, sources, llmCalls, stream>>
    /\ UNCHANGED outsideRag

\* The stream is exhausted: yield {"sources": sources}.
StreamEnd ==
    /\ gpc = "streaming"
    /\ consumed = Len(stream.tokens)
    /\ ~stream.fails
    /\ emitted' = Append(emitted, [sources |-> sources])
    /\ gpc' = "final_sources"
    /\ UNCHANGED <<index, args, docs, sources, llmCalls, stream, consumed>>
    /\ UNCHANGED outsideRag

\* Mutant: the sources item is yielded before the exception leaves (finally).
StreamRaise_SourcesAnyway ==
    /\ gpc = "streaming"
    /\ consumed = Len(stream.tokens)
    /\ stream.fails
    /\ emitted' = Append(emitted, [sources |-> sources])
    /\ gpc' = "raised"
    /\ UNCHANGED <<index, args, docs, sources, llmCalls, stream, consumed>>
    /\ UNCHANGED outsideRag

\* The stream raises: the exception leaves the generator.
StreamRaise ==
    /\ gpc = "streaming"
    /\ consumed = Len(stream.tokens)
    /\ stream.fails
    /\ gpc' = "raised"
    /\ UNCHANGED <<index, args, docs, sources, llmCalls, stream, consumed, emitted>>
    /\ UNCHANGED outsideRag

\* Next pull after the sources item: the function body ends.
FinalReturn ==
    /\ gpc = "final_sources"
    /\ gpc' = "done"
    /\ UNCHANGED <<index, args, docs, sources, llmCalls, stream, consumed, emitted>>
    /\ UNCHANGED outsideRag

\* ------------------------------------------------ app.py, top to the dashboard
\* A cache file left by an earlier process.
PriorCache ==
    [exists  |-> TRUE,
     content |-> JsonDump(<<ResultRecord(Ticket(1),
                    [topic_tags       |-> <<"Bug">>,
                     sentiment        |-> "Angry",
                     priority         |-> "P0 (High)",
                     summary          |-> "summary-p",
                     suggested_action |-> "action-p"])>>)]

\* Streamlit runs the script from the top: first run, or a rerun after the
\* previous run ended or stopped.
ScriptStart ==
    /\ spos \in {"idle", "done", "stopped"}
    /\ spos' = "check_key"
    /\ scriptError' = ""
    /\ ops' = <<>>
    /\ ResetRun
    /\ UNCHANGED <<tickets, cacheFile, written, pc>>
    /\ UNCHANGED <<apiKey, indexDir, gdriveSecret, ticketsFile, cached>>
    /\ UNCHANGED outsideScript

\* Mutant: the missing credential is reported but the script goes on.
CheckKeyMissing_NoStop ==
    /\ spos = "check_key"
    /\ ~apiKey
    /\ scriptError' = "GOOGLE_API_KEY is not set"
    /\ spos' = "download"
    /\ UNCHANGED <<apiKey, indexDir, gdriveSecret, ticketsFile, cached, ops>>
    /\ UNCHANGED <<bulkVars, outsideScript>>

\* if not os.environ.get("GOOGLE_API_KEY"): st.error(...); st.stop()
CheckKeyMissing ==
    /\ spos = "check_key"
    /\ ~apiKey
    /\ scriptError' = "GOOGLE_API_KEY is not set"
    /\ spos' = "stopped"
    /\ UNCHANGED <<apiKey, indexDir, gdriveSecret, ticketsFile, cached, ops>>
    /\ UNCHANGED <<bulkVars, outsideScript>>

\* The credential is set: the script reaches download_and_unzip_index().
CheckKeyPresent ==
    /\ spos = "check_key"
    /\ apiKey
    /\ spos' = "download"
    /\ UNCHANGED <<apiKey, indexDir, gdriveSecret, ticketsFile, cached,
                   scriptError, ops>>
    /\ UNCHANGED <<bulkVars, outsideScript>>

\* download_and_unzip_index(): cached result, or the index directory exists.
IndexPresent ==
    /\ spos = "download"
    /\ "download_and_unzip_index" \in cached \/ indexDir
    /\ cached' = cached \cup {"download_and_unzip_index"}
    /\ spos' = "check_tickets"
    /\ UNCHANGED <<apiKey, indexDir, gdriveSecret, ticketsFile, scriptError, ops>>
    /\ UNCHANGED <<bulkVars, outsideScript>>

\* download_and_unzip_index(): no directory and no GDRIVE_INDEX_ID secret.
IndexSecretMissing ==
    /\ spos = "download"
    /\ "download_and_unzip_index" \notin cached
    /\ ~indexDir
    /\ ~gdriveSecret
    /\ scriptError' = "GDRIVE_INDEX_ID secret not found"
    /\ spos' = "stopped"
    /\ UNCHANGED <<apiKey, indexDir, gdriveSecret, ticketsFile, cached, ops>>
    /\ UNCHANGED <<bulkVars, outsideScript>>

\* download_and_unzip_index(): gdown.download, extractall, os.remove(zip).
IndexDownload ==
    /\ spos = "download"
    /\ "download_and_unzip_index" \notin cached
    /\ ~indexDir
    /\ gdriveSecret
    /\ ops' = Append(ops, "download_index")
    /\ indexDir' = TRUE
    /\ cached' = cached \cup {"download_and_unzip_index"}
    /\ spos' = "check_tickets"
    /\ UNCHANGED <<apiKey, gdriveSecret, ticketsFile, scriptError>>
    /\ UNCHANGED <<bulkVars, outsideScript>>

\* if not os.path.exists("data/sample_tickets.json"): st.error(...); st.stop()
CheckTicketsFile ==
    /\ spos = "check_tickets"
    /\ IF ticketsFile
       THEN spos' = "sidebar" /\ UNCHANGED scriptError
       ELSE spos' = "stopped" /\ scriptError' = "data/sample_tickets.json not found"
    /\ UNCHANGED <<apiKey, indexDir, gdriveSecret, ticketsFile, cached, ops>>
    /\ UNCHANGED <<bulkVars, outsideScript>>

\* Sidebar, button pressed with the cache file present: os.remove, st.rerun().
SidebarClear ==
    /\ spos = "sidebar"
    /\ cacheFile.exists
    /\ cacheFile' = NoFile
    /\ written' = NothingWritten
    /\ ResetRun
    /\ ops' = <<>>
    /\ spos' = "check_key"
    /\ UNCHANGED <<tickets, pc>>
    /\ UNCHANGED <<apiKey, indexDir, gdriveSecret, ticketsFile, cached, scriptError>>
    /\ UNCHANGED outsideScript

\* Sidebar, button not pressed (or pressed with no cache file).
SidebarPass ==
    /\ spos = "sidebar"
    /\ spos' = "load_tickets"
    /\ UNCHANGED <<apiKey, indexDir, gdriveSecret, ticketsFile, cached,
                   scriptError, ops>>
    /\ UNCHANGED <<bulkVars, outsideScript>>

\* tickets = load_tickets(), under st.cache_data.
LoadTickets ==
    /\ spos = "load_tickets"
    /\ IF "load_tickets" \in cached
       THEN UNCHANGED <<tickets, ops, cached>>
       ELSE /\ tickets' \in load_tickets
            /\ ops' = Append(ops, "load_tickets")
            /\ cached' = cached \cup {"load_tickets"}
    /\ spos' = "get_chain"
    /\ UNCHANGED <<apiKey, indexDir, gdriveSecret, ticketsFile, scriptError>>
    /\ UNCHANGED <<cacheFile, written, pc, i, results, calls, events, messages,
                   progress, returned>>
    /\ UNCHANGED outsideScript

\* classification_chain = get_cached_classification_chain(), under
\* st.cache_resource.
GetChain ==
    /\ spos = "get_chain"
    /\ IF "get_cached_classification_chain" \in cached
       THEN UNCHANGED <<ops, cached>>
       ELSE /\ ops' = Append(ops, "get_classification_chain")
            /\ cached' = cached \cup {"get_cached_classification_chain"}
    /\ spos' = "call_pipeline"
    /\ UNCHANGED <<apiKey, indexDir, gdriveSecret, ticketsFile, scriptError>>
    /\ UNCHANGED <<bulkVars, outsideScript>>

\* classified_tickets = load_or_classify_all_tickets(tickets, chain): the call.
CallPipeline ==
    /\ spos = "call_pipeline"
    /\ ops' = Append(ops, "load_or_classify_all_tickets")
    /\ spos' = "pipeline"
    /\ UNCHANGED <<apiKey, indexDir, gdriveSecret, ticketsFile, cached, scriptError>>
    /\ UNCHANGED <<bulkVars, outsideScript>>

\* Entry of load_or_classify_all_tickets inside the script run.
PipelineEnter ==
    /\ spos = "pipeline"
    /\ messages = <<>>
    /\ LoadFromCache \/ StartBulk

\* The classification loop and the save inside the script run.
PipelineStep ==
    /\ spos = "pipeline"
    /\ LoopHead \/ Sleep \/ InvokeOk \/ InvokeRaise \/ Save

\* The function has returned: the dashboard is rendered and the run ends.
Dashboard ==
    /\ spos = "pipeline"
    /\ pc = "idle"
    /\ messages # <<>>
    /\ spos' = "done"
    /\ UNCHANGED <<apiKey, indexDir, gdriveSecret, ticketsFile, cached,
                   scriptError, ops>>
    /\ UNCHANGED <<bulkVars, outsideScript>>

\* ------------------------------------------ build_index.py and build_index()
\* RecursiveCharacterTextSplitter(chunk_size=1000, chunk_overlap=200)
ChunkSize == 1000

ChunkOverlap == 200

\* Pages a sitemap may list, [host, path, length of the page text], in the
\* order in which a sitemap lists them.
PageOrder ==
    <<[host |-> "docs.atlan.com",      path |-> "/lineage", length |-> 2600],
      [host |-> "docs.atlan.com",      path |-> "/sso",     length |-> 600],
      [host |-> "developer.atlan.com", path |-> "/sdk",     length |-> 1800],
      [host |-> "developer.atlan.com", path |-> "/api",     length |-> 1000],
      [host |-> "atlan.com",           path |-> "/pricing", length |-> 900]>>

PagePool == { PageOrder[n] : n \in 1..Len(PageOrder) }

\* SelectSeq over a sequence of records by membership.
RECURSIVE Listed(_, _)
Listed(order, S) ==
    IF order = <<>> THEN <<>>
    ELSE (IF Head(order) \in S THEN <<Head(order)>> ELSE <<>>)
         \o Listed(Tail(order), S)

\* SitemapLoader(web_path, filter_urls=[prefix]).load(): the listed pages
\* whose URL starts with the prefix, as documents with metadata.source.
SitemapLoad(sitemap, host) ==
    Listed(PageOrder, { pg \in sitemap : pg.host = host })

\* The windows of one page: chunk_size long, consecutive ones sharing
\* chunk_overlap characters.
RECURSIVE SplitPage(_, _)
SplitPage(pg, from) ==
    IF from + ChunkSize >= pg.length
    THEN <<[source |-> <<pg.host, pg.path>>, from |-> from, to |-> pg.length]>>
    ELSE <<[source |-> <<pg.host, pg.path>>, from |-> from, to |-> from + ChunkSize]>>
         \o SplitPage(pg, from + ChunkSize - ChunkOverlap)

\* text_splitter.split_documents(all_docs)
RECURSIVE split_documents(_)
split_documents(all_docs) ==
    IF all_docs = <<>> THEN <<>>
    ELSE SplitPage(Head(all_docs), 0) \o split_documents(Tail(all_docs))

\* build_index.py with the directory present: "FAISS index already exists."
BuildSkip ==
    /\ bpc = "idle"
    /\ savedIndex.exists
    /\ bpc' = "skipped"
    /\ UNCHANGED <<mainSitemap, devSitemap, docs_from_main, docs_from_dev,
                   chunks, savedIndex, buildError>>
    /\ UNCHANGED outsideBuild

\* build_index.py with no directory: build_index() is called; the loaders
\* are constructed.
BuildStart ==
    /\ bpc = "idle"
    /\ ~savedIndex.exists
    /\ bpc' = "load_main"
    /\ UNCHANGED <<mainSitemap, devSitemap, docs_from_main, docs_from_dev,
                   chunks, savedIndex, buildError>>
    /\ UNCHANGED outsideBuild

\* docs_from_main = loader_docs.load()
CrawlMain ==
    /\ bpc = "load_main"
    /\ docs_from_main' = SitemapLoad(mainSitemap, "docs.atlan.com")
    /\ bpc' = "load_dev"
    /\ UNCHANGED <<mainSitemap, devSitemap, docs_from_dev, chunks, savedIndex,
                   buildError>>
    /\ UNCHANGED outsideBuild

\* loader_docs.load() raises: nothing catches it, the process ends.
CrawlMainFails ==
    /\ bpc = "load_main"
    /\ buildError' = "crawl of docs.atlan.com failed"
    /\ bpc' = "failed"
    /\ UNCHANGED <<mainSitemap, devSitemap, docs_from_main, docs_from_dev,
                   chunks, savedIndex>>
    /\ UNCHANGED outsideBuild

\* docs_from_dev = loader_dev.load()
CrawlDev ==
    /\ bpc = "load_dev"
    /\ docs_from_dev' = SitemapLoad(devSitemap, "developer.atlan.com")
    /\ bpc' = "split"
    /\ UNCHANGED <<mainSitemap, devSitemap, docs_from_main, chunks, savedIndex,
                   buildError>>
    /\ UNCHANGED outsideBuild

\* Mutant: a failed developer-hub crawl is caught and the build goes on with
\* the documentation pages alone.
CrawlDevFails_Recover ==
    /\ bpc = "load_dev"
    /\ buildError' = "crawl of developer.atlan.com failed"
    /\ docs_from_dev' = <<>>
    /\ bpc' = "split"
    /\ UNCHANGED <<mainSitemap, devSitemap, docs_from_main, chunks, savedIndex>>
    /\ UNCHANGED outsideBuild

\* loader_dev.load() raises: nothing catches it, the process ends.
CrawlDevFails ==
    /\ bpc = "load_dev"
    /\ buildError' = "crawl of developer.atlan.com failed"
    /\ bpc' = "failed"
    /\ UNCHANGED <<mainSitemap, devSitemap, docs_from_main, docs_from_dev,
                   chunks, savedIndex>>
    /\ UNCHANGED outsideBuild

\* all_docs = docs_from_main + docs_from_dev; chunks = split_documents(all_docs)
SplitDocs ==
    /\ bpc = "split"
    /\ chunks' = split_documents(docs_from_main \o docs_from_dev)
    /\ bpc' = "embed"
    /\ UNCHANGED <<mainSitemap, devSitemap, docs_from_main, docs_from_dev,
                   savedIndex, buildError>>
    /\ UNCHANGED outsideBuild

\* FAISS.from_documents(chunks, embeddings); vector_store.save_local(INDEX_PATH)
EmbedAndSave ==
    /\ bpc = "embed"
    /\ chunks # <<>>
    /\ savedIndex' = [exists |-> TRUE, chunks |-> chunks]
    /\ bpc' = "saved"
    /\ UNCHANGED <<mainSitemap, devSitemap, docs_from_main, docs_from_dev,
                   chunks, buildError>>
    /\ UNCHANGED outsideBuild

\* FAISS.from_documents([]) raises (no embedding to size the index from).
EmbedNothing ==
    /\ bpc = "embed"
    /\ chunks = <<>>
    /\ buildError' = "no chunks to index"
    /\ bpc' = "failed"
    /\ UNCHANGED <<mainSitemap, devSitemap, docs_from_main, docs_from_dev,
                   chunks, savedIndex>>
    /\ UNCHANGED outsideBuild

\* ------------------------------------------- app.py, the interactive surfaces
\* No classification result is being compared.
NoDecision == [decided |-> FALSE, triage |-> FALSE, chat |-> FALSE]

\* No handler has run in this session.
NoTrace ==
    [surface |-> "none", query |-> "", classified |-> FALSE, topic_tags |-> <<>>,
     generatorCalls |-> <<>>, canned |-> FALSE, error |-> ""]

\* "TOPIC TAGS - Choose 1-3 most relevant from": the most tags one result has.
MaxTags == 3

\* str.lower() on the tags a classification may carry.
LowerTable ==
    { <<"How-to", "how-to">>, <<"Product", "product">>,
      <<"Connector", "connector">>, <<"Lineage", "lineage">>,
      <<"API/SDK", "api/sdk">>, <<"SSO", "sso">>, <<"Glossary", "glossary">>,
      <<"Best practices", "best practices">>,
      <<"Sensitive data", "sensitive data">>, <<"Bug", "bug">>,
      <<"Feature request", "feature request">>,
      <<"Documentation", "documentation">>, <<"Performance", "performance">>,
      <<"Integration", "integration">>, <<"Security", "security">>,
      <<"Onboarding", "onboarding">>, <<"Troubleshooting", "troubleshooting">>,
      <<"Billing", "billing">> }

lower(t) ==
    IF \E p \in LowerTable : p[1] = t
    THEN (CHOOSE p \in LowerTable : p[1] = t)[2]
    ELSE t

\* rag_topics of the triage tab.
TriageRagTopics == <<"how-to", "product", "best practices", "api/sdk", "sso">>

\* rag_topics of the chat tab.
ChatRagTopics ==
    <<"how-to", "product", "best practices", "api/sdk", "sso", "glossary",
      "lineage", "connector">>

\* any(t in rag_topics for t in [t.lower() for t in analysis.topic_tags])
AnyRoutable(topic_tags, rag_topics) ==
    \E n \in DOMAIN topic_tags :
        \E m \in DOMAIN rag_topics : rag_topics[m] = lower(topic_tags[n])

\* Every list of up to MaxTags tags of the vocabulary.
TagLists == UNION { [1..n -> TopicVocabulary] : n \in 0..MaxTags }

\* One classification result taken through the branch test of both tabs.
Decide ==
    /\ ~routeDecision.decided
    /\ routeDecision' =
         [decided |-> TRUE,
          triage  |-> AnyRoutable(routeTags, TriageRagTopics),
          chat    |-> AnyRoutable(routeTags, ChatRagTopics)]
    /\ UNCHANGED routeTags
    /\ UNCHANGED outsideRoute

\* What classification_chain.invoke may return for an interactive query.
InteractiveOutputs ==
    ClassifierOutputs \cup
    { [topic_tags       |-> <<"Lineage">>,
       sentiment        |-> "Curious",
       priority         |-> "P1 (Medium)",
       summary          |-> "summary-d",
       suggested_action |-> "action-d"],
      [topic_tags       |-> <<>>,
       sentiment        |-> "Neutral",
       priority         |-> "P2 (Low)",
       summary          |-> "summary-e",
       suggested_action |-> "action-e"] }

\* Text-area values whose strip() is empty.
BlankInputs == {"", "   "}

\* def get_rag_response_stream(vector_store, llm, query, conversation_history="")
RagSignature ==
    [required |-> <<"vector_store", "llm", "query">>,
     optional |-> <<"conversation_history">>]

\* Python binds positional arguments when the call is evaluated: too few or
\* too many raise TypeError there, before any of the body runs.
Binds(positional, signature) ==
    /\ Len(positional) >= Len(signature.required)
    /\ Len(positional) <= Len(signature.required) + Len(signature.optional)

\* The consumer's loop over a bound generator, run to its end: the chunks
\* concatenated and the sources item, or the exception of llm.stream.
GeneratorRuns(vector_store) ==
    UNION { IF d = <<>>
            THEN { [raised |-> "", full_response |-> <<FallbackMessage>>,
                    sources |-> <<>>] }
            ELSE { IF st.fails
                   THEN [raised |-> "StreamError", full_response |-> st.tokens,
                         sources |-> <<>>]
                   ELSE [raised |-> "", full_response |-> st.tokens,
                         sources |-> SourcesOf(d)] : st \in Streams }
          : d \in similarity_search(vector_store, K) }

\* for part in get_rag_response_stream(*positional): ...
CallGenerator(positional) ==
    IF Binds(positional, RagSignature)
    THEN GeneratorRuns(positional[1])
    ELSE { [raised |-> "TypeError", full_response |-> <<>>, sources |-> <<>>] }

\* conversation_history of the triage tab: the two newest entries of
\* query_history, oldest first, as "user: ...\nassistant: ...\n".
RECURSIVE TriageHistoryOf(_)
TriageHistoryOf(recent_queries) ==
    IF recent_queries = <<>>
    THEN <<>>
    ELSE LET q == recent_queries[Len(recent_queries)]
         IN <<"user: ", q.query, "\nassistant: ">> \o q.answer \o <<"\n">>
            \o TriageHistoryOf(SubSeq(recent_queries, 1, Len(recent_queries) - 1))

TriageHistory(history) == TriageHistoryOf(SubSeq(history, 1, Min(2, Len(history))))

\* The triage tab's message for a query that is not routed.
TriageCanned(analysis) ==
    <<"This ticket has been classified as a **'", analysis.topic_tags[1],
      "'** issue and has been automatically routed to the appropriate specialist team based on its **",
      analysis.priority, "** priority level.">>

HistoryEntry(user_query, analysis, answer, srcs) ==
    [query |-> user_query, analysis |-> model_dump(analysis),
     answer |-> answer, sources |-> srcs]

TriageTrace(user_query) == [NoTrace EXCEPT !.surface = "triage", !.query = user_query]

\* The "Analyze Ticket" button: the whole handler, up to the insert into
\* query_history or to the exception that ends the script run.
AnalyzeTicket ==
    /\ cpos = "idle"
    /\ Len(query_history) < MaxQueries
    /\ \E user_query \in Queries \cup BlankInputs :
         IF user_query \in BlankInputs
         THEN /\ trace' = [TriageTrace(user_query) EXCEPT !.error = "warning"]
              /\ UNCHANGED query_history
         ELSE \/ /\ trace' = [TriageTrace(user_query) EXCEPT !.error = "ClassifierError"]
                 /\ UNCHANGED query_history
              \/ \E analysis \in InteractiveOutputs :
                   LET t == [TriageTrace(user_query) EXCEPT
                                !.classified = TRUE,
                                !.topic_tags = analysis.topic_tags]
                   IN IF AnyRoutable(analysis.topic_tags, TriageRagTopics)
                      THEN LET positional == <<user_query, TriageHistory(query_history)>>
                           IN \E run \in CallGenerator(positional) :
                                /\ trace' = [t EXCEPT !.generatorCalls = <<positional>>,
                                                      !.error = run.raised]
                                /\ IF run.raised # ""
                                   THEN UNCHANGED query_history
                                   ELSE query_history' =
                                          <<HistoryEntry(user_query, analysis,
                                                run.full_response, run.sources)>>
                                          \o query_history
                      ELSE IF analysis.topic_tags = <<>>
                           THEN /\ trace' = [t EXCEPT !.error = "IndexError"]
                                /\ UNCHANGED query_history
                           ELSE /\ trace' = [t EXCEPT !.canned = TRUE]
                                /\ query_history' =
                                     <<HistoryEntry(user_query, analysis,
                                           TriageCanned(analysis), <<>>)>>
                                     \o query_history
    /\ UNCHANGED <<chatMessages, cpos, testResult>>
    /\ UNCHANGED outsideApp

test_query == "How do I configure column-level lineage in Atlan?"

\* test_integration.test_rag(): True or False, every exception caught.
test_rag ==
    /\ cpos = "idle"
    /\ \E run \in CallGenerator(<<test_query>>) :
         /\ testResult' = IF run.raised # "" \/ run.full_response = <<>>
                          THEN "failed"
                          ELSE "passed"
         /\ trace' = [NoTrace EXCEPT !.surface = "test", !.query = test_query,
                                     !.generatorCalls = <<<<test_query>>>>,
                                     !.error = run.raised]
    /\ UNCHANGED <<query_history, chatMessages, cpos>>
    /\ UNCHANGED outsideApp

\* ', '.join(analysis.topic_tags)
RECURSIVE JoinTags(_)
JoinTags(topic_tags) ==
    IF Len(topic_tags) <= 1
    THEN topic_tags
    ELSE <<Head(topic_tags), ", ">> \o JoinTags(Tail(topic_tags))

\* The chat tab's message for a prompt that is not routed.
ChatCanned(analysis) ==
    <<"This has been classified as **'">> \o JoinTags(analysis.topic_tags)
    \o <<"'** with **", analysis.priority,
         " priority**. It has been routed to the appropriate team for handling.">>

\* f"Apologies, an error occurred: {str(e)}"
ErrorText(e) == <<"Apologies, an error occurred: ", e>>

\* "\n".join(f"{msg['role']}: {msg['content']}" for msg in msgs)
RECURSIVE JoinMessages(_)
JoinMessages(msgs) ==
    IF msgs = <<>>
    THEN <<>>
    ELSE <<Head(msgs).role, ": ">> \o Head(msgs).content
         \o (IF Len(msgs) > 1 THEN <<"\n">> ELSE <<>>)
         \o JoinMessages(Tail(msgs))

\* conversation_history of the chat tab: the last four messages, the prompt
\* just appended included, when there is more than one message.
ChatHistory(msgs) ==
    IF Len(msgs) > 1
    THEN JoinMessages(SubSeq(msgs, Len(msgs) - Min(4, Len(msgs)) + 1, Len(msgs)))
    ELSE <<>>

\* assistant_message: the "sources" key is set only for a non-empty list.
AssistantMessage(full_response, srcs) ==
    IF srcs # <<>>
    THEN [role |-> "assistant", content |-> full_response, sources |-> srcs]
    ELSE [role |-> "assistant", content |-> full_response]

ChatTrace(prompt) == [NoTrace EXCEPT !.surface = "chat", !.query = prompt]

\* st.chat_input returned a prompt: the user turn is appended and shown.
ChatSubmit ==
    /\ cpos = "idle"
    /\ Len(chatMessages) < 2 * MaxPrompts
    /\ \E prompt \in Queries :
         /\ chatMessages' = Append(chatMessages,
                              [role |-> "user", content |-> <<prompt>>])
         /\ trace' = ChatTrace(prompt)
    /\ cpos' = "assistant"
    /\ UNCHANGED <<query_history, testResult>>
    /\ UNCHANGED outsideApp

\* Mutant: an exception in the try block leaves the handler, nothing appended.
ChatRespond_Reraise ==
    /\ cpos = "assistant"
    /\ LET prompt == trace.query
       IN \/ /\ trace' = [trace EXCEPT !.error = "ClassifierError"]
             /\ UNCHANGED chatMessages
          \/ \E analysis \in InteractiveOutputs :
               LET t == [trace EXCEPT !.classified = TRUE,
                                      !.topic_tags = analysis.topic_tags]
               IN IF AnyRoutable(analysis.topic_tags, ChatRagTopics)
                  THEN LET positional == <<prompt, ChatHistory(chatMessages)>>
                       IN \E run \in CallGenerator(positional) :
                            /\ trace' = [t EXCEPT !.generatorCalls = <<positional>>,
                                                  !.error = run.raised]
                            /\ IF run.raised # ""
                               THEN UNCHANGED chatMessages
                               ELSE chatMessages' = Append(chatMessages,
                                      AssistantMessage(run.full_response, run.sources))
                  ELSE /\ trace' = [t EXCEPT !.canned = TRUE]
                       /\ chatMessages' = Append(chatMessages,
                            AssistantMessage(ChatCanned(analysis), <<>>))
    /\ cpos' = "idle"
    /\ UNCHANGED <<query_history, testResult>>
    /\ UNCHANGED outsideApp

\* The assistant block: try (classify, branch, stream or canned message),
\* except Exception (error text), then the assistant turn is appended.
ChatRespond ==
    /\ cpos = "assistant"
    /\ LET prompt == trace.query
       IN \/ /\ trace' = [trace EXCEPT !.error = "ClassifierError"]
             /\ chatMessages' = Append(chatMessages,
                  AssistantMessage(ErrorText("ClassifierError"), <<>>))
          \/ \E analysis \in InteractiveOutputs :
               LET t == [trace EXCEPT !.classified = TRUE,
                                      !.topic_tags = analysis.topic_tags]
               IN IF AnyRoutable(analysis.topic_tags, ChatRagTopics)
                  THEN LET positional == <<prompt, ChatHistory(chatMessages)>>
                       IN \E run \in CallGenerator(positional) :
                            /\ trace' = [t EXCEPT !.generatorCalls = <<positional>>,
                                                  !.error = run.raised]
                            /\ chatMessages' = Append(chatMessages,
                                 IF run.raised # ""
                                 THEN AssistantMessage(ErrorText(run.raised), <<>>)
                                 ELSE AssistantMessage(run.full_response, run.sources))
                  ELSE /\ trace' = [t EXCEPT !.canned = TRUE]
                       /\ chatMessages' = Append(chatMessages,
                            AssistantMessage(ChatCanned(analysis), <<>>))
    /\ cpos' = "idle"
    /\ UNCHANGED <<query_history, testResult>>
    /\ UNCHANGED outsideApp

\* ----------------------------------------------------------- specifications
InitPipeline ==
    /\ cacheFile = NoFile
    /\ written = NothingWritten
    /\ pc = "idle"
    /\ i = 0
    /\ results = <<>>
    /\ calls = <<>>
    /\ events = <<>>
    /\ messages = <<>>
    /\ progress = NoProgress
    /\ returned = <<>>

InitGenerator ==
    /\ gpc = "none"
    /\ args = NoArgs
    /\ docs = <<>>
    /\ sources = <<>>
    /\ llmCalls = <<>>
    /\ stream = NoStream
    /\ consumed = 0
    /\ emitted = <<>>

\* The script has not run; the credential and the files are in place.
InitScriptIdle ==
    /\ apiKey = TRUE
    /\ indexDir = TRUE
    /\ gdriveSecret = TRUE
    /\ ticketsFile = TRUE
    /\ cached = {}
    /\ spos = "idle"
    /\ scriptError = ""
    /\ ops = <<>>

NoIndex == [exists |-> FALSE, chunks |-> <<>>]

\* build_index.py has not run; there is nothing to crawl.
InitBuilderIdle ==
    /\ mainSitemap = {}
    /\ devSitemap = {}
    /\ bpc = "idle"
    /\ docs_from_main = <<>>
    /\ docs_from_dev = <<>>
    /\ chunks = <<>>
    /\ savedIndex = NoIndex
    /\ buildError = ""

\* A fresh session: no query, no chat turn, no test run.
InitSession ==
    /\ query_history = <<>>
    /\ chatMessages = <<>>
    /\ cpos = "idle"
    /\ trace = NoTrace
    /\ testResult = "not_run"

InitSurfacesIdle ==
    /\ InitSession
    /\ routeTags = <<>>
    /\ routeDecision = NoDecision

\* The dashboard script over any ticket file; the index is the full pool.
InitBulk ==
    /\ tickets \in load_tickets
    /\ index = ChunkPool
    /\ InitPipeline
    /\ InitGenerator
    /\ InitScriptIdle
    /\ InitBuilderIdle
    /\ InitSurfacesIdle

\* The answer generator over any persisted index; no tickets are involved.
InitRag ==
    /\ tickets = <<>>
    /\ index \in SUBSET ChunkPool
    /\ InitPipeline
    /\ InitGenerator
    /\ InitScriptIdle
    /\ InitBuilderIdle
    /\ InitSurfacesIdle

\* The dashboard script: the bulk pipeline, the cache-clear button, restarts.
NextBulk ==
    \/ LoadFromCache
    \/ StartBulk
    \/ LoopHead
    \/ Sleep
    \/ InvokeOk
    \/ InvokeRaise
    \/ Save
    \/ ClearCache
    \/ ReloadTickets

SpecBulk == InitBulk /\ [][NextBulk]_vars

\* A consumer driving the answer generator.
NextRag ==
    \/ Answer
    \/ RetrieveNothing
    \/ FallbackSources
    \/ FallbackReturn
    \/ RetrieveAndPrompt
    \/ StreamChunk
    \/ StreamEnd
    \/ StreamRaise
    \/ FinalReturn

SpecRag == InitRag /\ [][NextRag]_vars

\* A process of the dashboard in any environment, with or without a cache
\* file left by an earlier process.
InitScript ==
    /\ tickets = <<>>
    /\ index = ChunkPool
    /\ InitPipeline
    /\ InitGenerator
    /\ apiKey \in BOOLEAN
    /\ indexDir \in BOOLEAN
    /\ gdriveSecret \in BOOLEAN
    /\ ticketsFile \in BOOLEAN
    /\ cached = {}
    /\ spos = "idle"
    /\ scriptError = ""
    /\ ops = <<>>
    /\ InitBuilderIdle
    /\ InitSurfacesIdle

\* The same, with a cache file already on disk.
InitScriptPriorCache ==
    /\ tickets = <<>>
    /\ index = ChunkPool
    /\ cacheFile = PriorCache
    /\ written = [records |-> JsonLoad(PriorCache.content), total |-> 1]
    /\ pc = "idle"
    /\ i = 0
    /\ results = <<>>
    /\ calls = <<>>
    /\ events = <<>>
    /\ messages = <<>>
    /\ progress = NoProgress
    /\ returned = <<>>
    /\ InitGenerator
    /\ apiKey \in BOOLEAN
    /\ indexDir \in BOOLEAN
    /\ gdriveSecret \in BOOLEAN
    /\ ticketsFile \in BOOLEAN
    /\ cached = {}
    /\ spos = "idle"
    /\ scriptError = ""
    /\ ops = <<>>
    /\ InitBuilderIdle
    /\ InitSurfacesIdle

NextScript ==
    \/ ScriptStart
    \/ CheckKeyMissing
    \/ CheckKeyPresent
    \/ IndexPresent
    \/ IndexSecretMissing
    \/ IndexDownload
    \/ CheckTicketsFile
    \/ SidebarClear
    \/ SidebarPass
    \/ LoadTickets
    \/ GetChain
    \/ CallPipeline
    \/ PipelineEnter
    \/ PipelineStep
    \/ Dashboard

SpecScript == (InitScript \/ InitScriptPriorCache) /\ [][NextScript]_vars

\* An index persisted by an earlier build.
PriorIndex ==
    [exists |-> TRUE,
     chunks |-> <<[source |-> <<"docs.atlan.com", "/old">>, from |-> 0, to |-> 400]>>]

\* build_index.py started against any pair of sitemaps, with or without an
\* index directory in place.
InitBuild ==
    /\ tickets = <<>>
    /\ index = ChunkPool
    /\ InitPipeline
    /\ InitGenerator
    /\ InitScriptIdle
    /\ mainSitemap \in SUBSET PagePool
    /\ devSitemap \in SUBSET PagePool
    /\ bpc = "idle"
    /\ docs_from_main = <<>>
    /\ docs_from_dev = <<>>
    /\ chunks = <<>>
    /\ savedIndex \in {NoIndex, PriorIndex}
    /\ buildError = ""
    /\ InitSurfacesIdle

NextBuild ==
    \/ BuildSkip
    \/ BuildStart
    \/ CrawlMain
    \/ CrawlMainFails
    \/ CrawlDev
    \/ CrawlDevFails
    \/ SplitDocs
    \/ EmbedAndSave
    \/ EmbedNothing

SpecBuild == InitBuild /\ [][NextBuild]_vars

\* Any classification result, before either tab has branched on it.
InitRouting ==
    /\ tickets = <<>>
    /\ index = ChunkPool
    /\ InitPipeline
    /\ InitGenerator
    /\ InitScriptIdle
    /\ InitBuilderIdle
    /\ InitSession
    /\ routeTags \in TagLists
    /\ routeDecision = NoDecision

NextRouting == Decide

SpecRouting == InitRouting /\ [][NextRouting]_vars

\* The triage tab and the integration test in a fresh session.
InitTriage ==
    /\ tickets = <<>>
    /\ index = ChunkPool
    /\ InitPipeline
    /\ InitGenerator
    /\ InitScriptIdle
    /\ InitBuilderIdle
    /\ InitSurfacesIdle

NextTriage ==
    \/ AnalyzeTicket
    \/ test_rag

SpecTriage == InitTriage /\ [][NextTriage]_vars

\* The chat tab in a fresh session.
InitChat ==
    /\ tickets = <<>>
    /\ index = ChunkPool
    /\ InitPipeline
    /\ InitGenerator
    /\ InitScriptIdle
    /\ InitBuilderIdle
    /\ InitSurfacesIdle

NextChat ==
    \/ ChatSubmit
    \/ ChatRespond

SpecChat == InitChat /\ [][NextChat]_vars

\* ------------------------------------------------------------------ claims
\* The most recent script run went through the classification loop and ended.
BulkRunEnded == pc = "idle" /\ messages # <<>> /\ messages[1].level = "warning"

\* The most recent script run was served from the cache file.
CacheRunEnded == pc = "idle" /\ messages # <<>> /\ messages[1].level = "info"

\* The k-th chain.invoke of the run is the first one that raised.
FirstRaiseAt(k) ==
    /\ k \in 1..Len(calls)
    /\ calls[k].raised
    /\ \A j \in 1..(k - 1) : ~calls[j].raised

\* Records of the first n tickets with the classifications returned for them.
RecordsOfFirst(n) ==
    [j \in 1..n |->
        [id             |-> tickets[j].id,
         subject        |-> tickets[j].subject,
         body           |-> tickets[j].body,
         classification |-> calls[j].value]]

\* C1: in a run started with no cache, if the call for the k-th ticket is the
\* first to raise, it is the last call of the run (made for the k-th ticket,
\* k <= N), and the cache written at the end of the run holds exactly the
\* records of the first k-1 tickets, in input order.
C1_StopAtFirstFailure ==
    \A k \in 1..Len(calls) :
        FirstRaiseAt(k) =>
            /\ Len(calls) = k
            /\ k <= Len(tickets)
            /\ calls[k].ticket_text = <<tickets[k].subject, "\n\n", tickets[k].body>>
            /\ pc = "idle" =>
                 /\ cacheFile.exists
                 /\ JsonLoad(cacheFile.content) = RecordsOfFirst(k - 1)

\* Five tickets, the third call raised, the run ended with two cached records.
C1_Witness ==
    /\ BulkRunEnded
    /\ Len(tickets) = 5
    /\ FirstRaiseAt(3)
    /\ cacheFile.exists
    /\ Len(JsonLoad(cacheFile.content)) = 2

\* C2: a run started with no cache in which no call raises invokes the
\* classifier exactly N times, the j-th time with subject + blank line + body
\* of the j-th ticket, and writes exactly N records in input order, the j-th
\* with the id, subject, body of the j-th ticket and its classification.
C2_CompleteRun ==
    (BulkRunEnded /\ \A j \in 1..Len(calls) : ~calls[j].raised) =>
        /\ Len(calls) = Len(tickets)
        /\ \A j \in 1..Len(tickets) :
             /\ calls[j].ticket_text = <<tickets[j].subject, "\n\n", tickets[j].body>>
             /\ calls[j].value \in ClassifierOutputs
        /\ cacheFile.exists
        /\ JsonLoad(cacheFile.content) = RecordsOfFirst(Len(tickets))

\* A complete run over the longest collection with both classifier outputs.
C2_Witness ==
    /\ BulkRunEnded
    /\ Len(tickets) = MaxTickets
    /\ Len(calls) = MaxTickets
    /\ \A j \in 1..Len(calls) : ~calls[j].raised
    /\ calls[1].value # calls[2].value

\* C3: a run that finds the cache file makes no classifier call and no delay
\* and returns exactly the records that were written, in the order written,
\* whatever the current ticket collection is.
C3_CacheShortCircuit ==
    CacheRunEnded =>
        /\ calls = <<>>
        /\ events = <<>>
        /\ returned = written.records

\* A cache of two records served for a collection it does not belong to.
C3_Witness ==
    /\ CacheRunEnded
    /\ Len(returned) = 2
    /\ returned[1].classification.topic_tags = <<"SSO", "How-to">>
    /\ returned[2].classification.topic_tags = <<"Feature request">>
    /\ Len(tickets) = 1
    /\ tickets[1].id # returned[1].id

\* The cache file was written by a run that broke out of the loop.
FailedPartial == cacheFile.exists /\ Len(written.records) < written.total

\* C4: while the cache of a FailedPartial run has not been cleared, no step
\* enters the classification loop or makes a classifier call, and every run
\* serves exactly the m records of that cache, which stays as written.
C4_PartialServedAsComplete ==
    [][FailedPartial =>
          /\ pc' = "idle"
          /\ calls' # <<>> => calls' = calls
          /\ messages' # <<>> =>
               /\ returned' = written.records
               /\ cacheFile' = cacheFile
               /\ written' = written]_vars

\* A later run served 2 of 5 records although 5 tickets are to be classified.
C4_Witness ==
    /\ FailedPartial
    /\ CacheRunEnded
    /\ written.total = 5
    /\ Len(returned) = 2
    /\ Len(tickets) = 5

\* C5: the success report is issued only for runs in which every ticket of
\* the collection was classified; a run in which a call raised reports no
\* success.
C5_SuccessOnlyWhenComplete ==
    (BulkRunEnded /\ \E n \in 1..Len(messages) : messages[n].level = "success") =>
        /\ Len(results) = Len(tickets)
        /\ \A n \in 1..Len(messages) : messages[n].level # "error"

\* C6: no delay precedes the first classifier call, delays and calls
\* alternate, every delay lasts the fixed SleepSeconds, and a finished run
\* with c >= 1 calls has made exactly c-1 delays.
C6_DelayBetweenCalls ==
    /\ events # <<>> => events[1].kind = "invoke"
    /\ \A n \in 1..(Len(events) - 1) : events[n].kind # events[n + 1].kind
    /\ \A n \in 1..Len(events) :
         events[n].kind = "sleep" => events[n].seconds = 4
    /\ Cardinality({ n \in 1..Len(events) : events[n].kind = "invoke" }) = Len(calls)
    /\ (pc = "idle" /\ calls # <<>>) =>
         Cardinality({ n \in 1..Len(events) : events[n].kind = "sleep" })
            = Len(calls) - 1

\* A finished run with three calls and two delays.
C6_Witness ==
    /\ BulkRunEnded
    /\ Len(calls) = 3
    /\ Len(events) = 5
    /\ events[2].kind = "sleep"
    /\ events[4].kind = "sleep"

\* {"chunk": t} items for the tokens of toks, in order.
ChunkItems(toks) == [j \in 1..Len(toks) |-> [chunk |-> toks[j]]]

IsSourcesItem(item) == "sources" \in DOMAIN item

IsChunkItem(item) == "chunk" \in DOMAIN item

\* C7: with at least one chunk retrieved and the stream completing without
\* error, the emitted sequence is one {chunk} item per streamed token, in
\* stream order, then exactly one {sources} item, which is last; at no time
\* is a {sources} item followed by anything.
C7_ChunksThenSources ==
    /\ \A j \in 1..Len(emitted) : IsSourcesItem(emitted[j]) => j = Len(emitted)
    /\ (gpc = "streaming") =>
          emitted = ChunkItems(SubSeq(stream.tokens, 1, consumed))
    /\ (gpc \in {"final_sources", "done"} /\ docs # <<>>) =>
          /\ Len(emitted) = Len(stream.tokens) + 1
          /\ SubSeq(emitted, 1, Len(stream.tokens)) = ChunkItems(stream.tokens)
          /\ IsSourcesItem(emitted[Len(emitted)])

\* A completed answer of three tokens, not all equal, and the sources item.
C7_Witness ==
    /\ gpc = "done"
    /\ docs # <<>>
    /\ Len(stream.tokens) = 3
    /\ stream.tokens[1] # stream.tokens[2]
    /\ Len(emitted) = 4
    /\ IsSourcesItem(emitted[4])

\* C8: when retrieval returns no chunk, the generator emits the fallback
\* {chunk} item, then {sources: []}, then ends, and llm.stream is never
\* invoked during the call.
C8_EmptyRetrievalFallback ==
    (gpc \in {"fallback", "fallback_sources", "done"} /\ docs = <<>>) =>
        /\ llmCalls = <<>>
        /\ gpc = "fallback" => emitted = <<[chunk |-> FallbackMessage]>>
        /\ gpc \in {"fallback_sources", "done"} =>
             emitted = <<[chunk |-> FallbackMessage], [sources |-> <<>>]>>

\* A call against the empty index that has ended after its two items.
C8_Witness ==
    /\ gpc = "done"
    /\ index = {}
    /\ docs = <<>>
    /\ Len(emitted) = 2
    /\ args.query = "What is lineage?"

\* C9: when the stream raises after j chunk items, the consumer holds
\* exactly those j {chunk} items, in stream order, and no {sources} item.
C9_PartialThenError ==
    gpc = "raised" =>
        /\ emitted = ChunkItems(stream.tokens)
        /\ Len(emitted) = consumed
        /\ \A j \in 1..Len(emitted) : IsChunkItem(emitted[j]) /\ ~IsSourcesItem(emitted[j])

\* The stream raised after two chunk items had been yielded.
C9_Witness ==
    /\ gpc = "raised"
    /\ stream.fails
    /\ Len(emitted) = 2
    /\ llmCalls # <<>>

\* Python's string order, stated directly: a is a proper prefix of b, or at
\* the first position where they differ a has the smaller character.
LexBefore(a, b) ==
    \E k \in 1..(Len(a) + 1) :
        /\ \A m \in 1..(k - 1) : m <= Len(b) /\ a[m] = b[m]
        /\ \/ k = Len(a) + 1 /\ k <= Len(b)
           \/ k <= Len(a) /\ k <= Len(b) /\ a[k] < b[k]

\* C10: the {sources} item carries exactly the source URLs of the retrieved
\* chunks, each once, in ascending lexicographic order.
C10_SourcesSortedDeduplicated ==
    \A j \in 1..Len(emitted) :
        IsSourcesItem(emitted[j]) =>
            LET urls == emitted[j].sources
            IN  /\ \A a \in 1..Len(urls) :
                     \E n \in 1..Len(docs) : docs[n].metadata.source = urls[a]
                /\ \A n \in 1..Len(docs) :
                     \E a \in 1..Len(urls) : urls[a] = docs[n].metadata.source
                /\ \A a, b \in 1..Len(urls) : a < b => LexBefore(urls[a], urls[b])

\* Four chunks retrieved, two of them from the same page, sources not in
\* retrieval order.
C10_Witness ==
    /\ gpc = "done"
    /\ Len(docs) = 4
    /\ docs[1].metadata.source = UrlDevB
    /\ docs[2].metadata.source = UrlDocsAB
    /\ IsSourcesItem(emitted[Len(emitted)])
    /\ emitted[Len(emitted)].sources = <<UrlDocsA, UrlDocsAB, UrlDevB>>

\* The classification keeps to the schema contract of the data model.
WellFormedClassification(c) ==
    /\ Len(c.topic_tags) \in 1..3
    /\ \A n \in 1..Len(c.topic_tags) : c.topic_tags[n] \in TopicVocabulary
    /\ c.sentiment \in Sentiments
    /\ c.priority \in Priorities

\* C12: every classification stored in the cache has 1 to 3 topic tags, all
\* from the fixed vocabulary, and a sentiment and a priority from their
\* fixed enumerations.
C12_CachedClassificationsWellFormed ==
    cacheFile.exists =>
        LET recs == JsonLoad(cacheFile.content)
        IN  \A n \in 1..Len(recs) : WellFormedClassification(recs[n].classification)

\* C15: once the cache file exists no run of the pipeline writes, changes or
\* deletes it; the only step that removes it is the clear button; and a run
\* that starts without the file (as the first run after a clear does) enters
\* the classification loop over the ticket collection.
C15_CacheReadOnlyUntilCleared ==
    [][/\ cacheFile.exists =>
            \/ cacheFile' = cacheFile /\ written' = written
            \/ cacheFile' = NoFile /\ ClearCache
       /\ (~cacheFile.exists /\ pc = "idle" /\ messages' # messages) =>
            /\ pc' = "loop"
            /\ i' = 0
            /\ results' = <<>>
            /\ calls' = <<>>
            /\ ~cacheFile'.exists]_vars

\* A later run has served the cache of a complete run and left it as written.
C15_Witness ==
    /\ CacheRunEnded
    /\ cacheFile.exists
    /\ cacheFile.content = JsonDump(written.records)
    /\ Len(written.records) = MaxTickets
    /\ returned = written.records

\* C13: with the credential absent the script stops before any core
\* operation: no index download, no ticket loading, no classifier
\* construction or call, no read and no write of the classification cache.
C13_NoCredentialNoCoreOperation ==
    /\ [](~apiKey =>
            /\ spos \in {"idle", "check_key", "stopped"}
            /\ ops = <<>>
            /\ cached = {}
            /\ tickets = <<>>
            /\ pc = "idle"
            /\ calls = <<>>
            /\ messages = <<>>
            /\ returned = <<>>)
    /\ [][~apiKey => cacheFile' = cacheFile /\ indexDir' = indexDir]_vars

\* The script has stopped on the missing credential, a cache file and a
\* ticket file being there to be read.
C13_Witness ==
    /\ ~apiKey
    /\ spos = "stopped"
    /\ scriptError = "GOOGLE_API_KEY is not set"
    /\ cacheFile.exists
    /\ ticketsFile
    /\ ~indexDir
    /\ gdriveSecret

\* C14: if either crawl fails, build_index fails for good and persists no
\* index; an index is written only after both crawls have delivered their
\* pages, and it holds the chunks of both page lists, never of one alone.
C14_NoIndexFromPartialCrawl ==
    /\ [](buildError # "" => bpc = "failed" /\ ~savedIndex.exists)
    /\ [](bpc = "saved" =>
            /\ docs_from_main = SitemapLoad(mainSitemap, "docs.atlan.com")
            /\ docs_from_dev = SitemapLoad(devSitemap, "developer.atlan.com")
            /\ savedIndex.exists
            /\ \A pg \in mainSitemap \cup devSitemap :
                 ((pg \in mainSitemap /\ pg.host = "docs.atlan.com")
                    \/ (pg \in devSitemap /\ pg.host = "developer.atlan.com"))
                 => \E n \in 1..Len(savedIndex.chunks) :
                       savedIndex.chunks[n].source = <<pg.host, pg.path>>)
    /\ [][/\ bpc = "failed" => bpc' = "failed"
          /\ savedIndex' # savedIndex => bpc = "embed" /\ bpc' = "saved"]_vars

\* The developer-hub crawl failed after the documentation crawl had
\* delivered pages; no index was written.
C14_Witness ==
    /\ bpc = "failed"
    /\ buildError = "crawl of developer.atlan.com failed"
    /\ Len(docs_from_main) = 2
    /\ devSitemap # {}
    /\ ~savedIndex.exists
\* C18: for one and the same classification result the triage tab and the
\* chat tab take the same branch, both the answer generator or both the canned
\* routing message, for every list of tags of the vocabulary.
C18_SameRoutingOnBothSurfaces ==
    routeDecision.decided => routeDecision.triage = routeDecision.chat

\* Some tag of the most recent triage classification, lowercased, is one of
\* the triage tab's routable topics.
TriageRoutable ==
    \E n \in DOMAIN trace.topic_tags :
        \E m \in DOMAIN TriageRagTopics :
            TriageRagTopics[m] = lower(trace.topic_tags[n])

\* C11: a classified triage query reaches the answer generator if and only if
\* one of its tags, lowercased, is a routable topic; otherwise the canned
\* routing message is the recorded answer and the generator is not invoked.
\* Tag 'SSO' is routed; a lone 'Feature request' gets the canned message.
C11_RoutedIffRoutableTag ==
    (trace.surface = "triage" /\ trace.classified) =>
        /\ TriageRoutable <=> trace.generatorCalls # <<>>
        /\ ~TriageRoutable =>
             /\ trace.canned
             /\ query_history # <<>>
             /\ query_history[1].query = trace.query
             /\ query_history[1].sources = <<>>
        /\ trace.topic_tags = <<"SSO", "How-to">> => trace.generatorCalls # <<>>
        /\ trace.topic_tags = <<"Feature request">> => trace.canned

\* C16: calling the answer stream with (query, history), as the triage tab
\* does, or with the query alone, as test_rag does, is not an invocation
\* error, and a routed triage query ends as the newest history entry.
C16_AnswerStreamInvocable ==
    /\ trace.generatorCalls # <<>> => trace.error # "TypeError"
    /\ (trace.surface = "triage" /\ trace.generatorCalls # <<>>) =>
         /\ query_history # <<>>
         /\ query_history[1].query = trace.query

\* The transcript reads user, assistant, user, assistant, ... from its start.
Alternates ==
    \A n \in DOMAIN chatMessages :
        chatMessages[n].role = IF n % 2 = 1 THEN "user" ELSE "assistant"

\* C17: the chat transcript strictly alternates user, assistant from a user
\* turn; a submitted prompt appends exactly one user turn and then exactly one
\* assistant turn, which carries the error text when the classifier call or
\* the answer stream raised; no earlier turn is ever changed or removed.
C17_TranscriptAlternatesAppendOnly ==
    /\ [](/\ Alternates
          /\ cpos = "idle" => Len(chatMessages) % 2 = 0
          /\ cpos = "assistant" => Len(chatMessages) % 2 = 1
          /\ (cpos = "idle" /\ trace.surface = "chat" /\ trace.error # "") =>
                chatMessages[Len(chatMessages)].content =
                    <<"Apologies, an error occurred: ", trace.error>>)
    /\ [][/\ Len(chatMessages') >= Len(chatMessages)
          /\ SubSeq(chatMessages', 1, Len(chatMessages)) = chatMessages
          /\ (cpos = "idle" /\ cpos' = "assistant") =>
                chatMessages' = Append(chatMessages,
                                  [role |-> "user", content |-> <<trace'.query>>])
          /\ (cpos = "assistant" /\ cpos' = "idle") =>
                /\ Len(chatMessages') = Len(chatMessages) + 1
                /\ chatMessages'[Len(chatMessages')].role = "assistant"]_vars

\* Two prompts answered: the first by the error text of a failed call of the
\* answer stream, the second by the canned routing message.
C17_Witness ==
    /\ cpos = "idle"
    /\ Len(chatMessages) = 4
    /\ chatMessages[1].role = "user"
    /\ chatMessages[2] = [role |-> "assistant",
                          content |-> <<"Apologies, an error occurred: ", "TypeError">>]
    /\ chatMessages[3].role = "user"
    /\ chatMessages[4].role = "assistant"
    /\ chatMessages[4].content[1] = "This has been classified as **'"
    /\ trace.canned

====
